---- MODULE Spec2Model ----
(***************************************************************************)
(* gofasta: the SNPs-vs-reference streaming pipeline (package snps) and    *)
(* the closest-match batch runner (package closest) as state machines.     *)
(*                                                                         *)
(* Goroutines are processes with a program counter; an unbuffered channel  *)
(* operation is one action taken jointly by the sender and the receiver;   *)
(* the buffered channel cSNPs is a queue of capacity runtime.NumCPU().     *)
(***************************************************************************)
EXTENDS Integers, Sequences, FiniteSets, TLC

\* ------------------------------------------------------------------ bounds
\* runtime.NumCPU(): the number of getSNPs workers and the capacity of cSNPs.
NumCPU == 2
\* The largest number of records an input stream holds.
MaxRecords == 3
\* The largest number of records the reference stream holds.
MaxRefRecords == 2
\* The largest number of columns of a record.
MaxLen == 2

\* ---------------------------------------------------------------- encoding
\* The nucleotide characters the input streams are written in.
RawAlphabet == {"A", "C"}

\* A character outside the nucleotide alphabet.
BadChar == "!"

\* encoding.MakeEncodingArray: character -> bit-level code (0: unsupported).
EncodingArray(ch) ==
    CASE ch = "A" -> 136
      [] ch = "G" -> 72
      [] ch = "C" -> 40
      [] ch = "T" -> 24
      [] ch = "R" -> 192
      [] ch = "N" -> 240
      [] ch = "-" -> 244
      [] OTHER -> 0

\* encoding.MakeDecodingArray: bit-level code -> character.
DecodingArray(code) ==
    CASE code = 136 -> "A"
      [] code = 72 -> "G"
      [] code = 40 -> "C"
      [] code = 24 -> "T"
      [] code = 192 -> "R"
      [] code = 240 -> "N"
      [] code = 244 -> "-"
      [] OTHER -> ""

\* Go's & on two bytes.
RECURSIVE BitAnd(_, _)
BitAnd(x, y) ==
    IF x = 0 \/ y = 0
    THEN 0
    ELSE (x % 2) * (y % 2) + 2 * BitAnd(x \div 2, y \div 2)

\* ------------------------------------------------------------------- state
VARIABLES
    input,        \* per reader: the raw records scanned so far
    rd,           \* per reader: ReadEncodeAlignment's position and error
    mainPc,       \* SNPs: the select loop the coordinator is in
    refSeq,       \* SNPs: var refSeq []byte
    retval,       \* SNPs: "none" while running, "nil" or the error returned
    wk,           \* per worker: getSNPs's position and the snpLine in hand
    wgSNPs,       \* the wait group's counter
    waiterPc,     \* the goroutine that waits for wgSNPs
    cSNPs,        \* the buffered channel's queue
    closed,       \* the channels close() was called on
    wr,           \* writeOutput: position, outputMap, counter, err
    header,       \* number of header lines written to out
    out,          \* the rows written to out, in order
    crashed       \* a goroutine panicked: the process is gone

snpsVars == <<input, rd, mainPc, refSeq, retval, wk, wgSNPs, waiterPc, cSNPs,
              closed, wr, header, out, crashed>>

\* The closest-match workload (package closest).
VARIABLES
    QA,           \* Closest: the encoded query alignment
    TA,           \* Closest: the encoded target alignment
    threads,      \* Closest: the thread hint
    closestPc,    \* Closest: the coordinator's position
    targetScores, \* Closest: scoreAlignment(TA)
    NGoRoutines,  \* Closest: the number of processChunk goroutines
    chunkSize,    \* Closest: floor(len(QA) / NGoRoutines)
    procs,        \* the processChunk goroutines started, in start order
    sorted,       \* Closest: the chunk results by chunk id
    collected,    \* Closest: the collect loop's i
    outfile,      \* the output file: created, header lines, rows
    closestRet    \* Closest: "none" while running, "nil" or the error

closestVars == <<QA, TA, threads, closestPc, targetScores, NGoRoutines,
                 chunkSize, procs, sorted, collected, outfile, closestRet>>

\* One query against the targets: the selector on its own.
VARIABLES
    selPc,        \* "init", "scored" (distances and scores computed), "done"
    selD,         \* the query's row of the difference matrix
    selBest,      \* getBestTargetIndex's result
    selRow,       \* processChunk's row for the query
    selSL         \* the snpLine snps.getSNPs builds, the chosen target as refSeq

selectVars == <<selPc, selD, selBest, selRow, selSL>>

vars == <<snpsVars, closestVars, selectVars>>

Readers == {"ref", "aln"}
Workers == 1..NumCPU

\* snpLine{}: Go's zero value.
ZeroSnpLine == [queryname |-> "", snps |-> <<>>, idx |-> 0]

\* The raw records an input stream may hold: a run of one nucleotide, of every
\* width (so that a record equals the reference or differs from it in every
\* column, and is as wide, wider or narrower), or a record with a character
\* outside the alphabet.
RawSeqs ==
    {[i \in 1..n |-> ch] : n \in 1..MaxLen, ch \in RawAlphabet}
        \cup {<<BadChar>>}

\* ----------------------------------------------- fastaio.ReadEncodeAlignment
\* The name of the record at position k of a stream (names are distinct).
RecordID(k) == ToString(k)

\* The EncodedFastaRecord decoded from raw text as the stream's record number
\* counter: the index is the position in the input, starting at 0.
EncodeRecord(raw, counter) ==
    [ID |-> RecordID(counter),
     Seq |-> [i \in 1..Len(raw) |-> EncodingArray(raw[i])],
     Idx |-> counter]

\* What scanning one more record does: an error, or a record to send.
ReadEncode(raw, counter, width) ==
    IF \E i \in 1..Len(raw) : EncodingArray(raw[i]) = 0
    THEN [kind |-> "err", err |-> "UnsupportedSymbol"]
    ELSE IF counter > 0 /\ Len(raw) # width
    THEN [kind |-> "err", err |-> "AlignmentWidthMismatch"]
    ELSE [kind |-> "rec", err |-> "none"]

\* The record reader r holds while it is blocked sending on its channel.
CurFR(r) == EncodeRecord(input[r][Len(input[r])], Len(input[r]) - 1)

\* The reader scans its stream: end of input, or one more record.
ReaderScan(r) ==
    /\ ~crashed
    /\ rd[r].pc = "scan"
    /\ \/ /\ rd' = [rd EXCEPT ![r].pc = "done"]
          /\ UNCHANGED input
       \/ /\ Len(input[r]) < (IF r = "ref" THEN MaxRefRecords ELSE MaxRecords)
          /\ \E raw \in RawSeqs :
                LET res == ReadEncode(raw, Len(input[r]),
                                      IF input[r] = <<>> THEN 0
                                      ELSE Len(input[r][1]))
                IN  /\ input' = [input EXCEPT ![r] = Append(@, raw)]
                    /\ rd' = [rd EXCEPT ![r] =
                                 IF res.kind = "err"
                                 THEN [pc |-> "err", err |-> res.err]
                                 ELSE [pc |-> "send", err |-> "none"]]
    /\ UNCHANGED <<closestVars, selectVars>>
    /\ UNCHANGED <<mainPc, refSeq, retval, wk, wgSNPs, waiterPc, cSNPs,
                   closed, wr, header, out, crashed>>

\* ------------------------------------------------------------ snps.getSNPs
\* The loop body over i (0-based in the code, 1-based here): the SNPs from
\* column i on.
RECURSIVE snpScan(_, _, _)
snpScan(ref, seq, i) ==
    IF i > Len(seq)
    THEN <<>>
    ELSE (IF BitAnd(ref[i], seq[i]) < 16
          THEN <<[ref |-> DecodingArray(ref[i]), pos |-> i,
                  alt |-> DecodingArray(seq[i])]>>
          ELSE <<>>) \o snpScan(ref, seq, i + 1)

\* refSeq[i] is out of range for some column of the record: a runtime panic.
getSNPsPanics(ref, FR) == Len(FR.Seq) > Len(ref)

\* The snpLine getSNPs builds for one record.
getSNPs(ref, FR) ==
    [queryname |-> FR.ID, snps |-> snpScan(ref, FR.Seq, 1), idx |-> FR.Idx]

\* A worker receives a record from cFR and compares it with the reference.
WorkerRecv(w) ==
    /\ ~crashed
    /\ wk[w].pc = "recv"
    /\ rd["aln"].pc = "send"
    /\ rd' = [rd EXCEPT !["aln"].pc = "scan"]
    /\ IF getSNPsPanics(refSeq, CurFR("aln"))
       THEN /\ crashed' = TRUE
            /\ UNCHANGED wk
       ELSE /\ wk' = [wk EXCEPT ![w] =
                        [pc |-> "send", SL |-> getSNPs(refSeq, CurFR("aln"))]]
            /\ UNCHANGED crashed
    /\ UNCHANGED <<closestVars, selectVars>>
    /\ UNCHANGED <<input, mainPc, refSeq, retval, wgSNPs, waiterPc, cSNPs,
                   closed, wr, header, out>>

\* cSNPs <- SL: blocks while the buffer is full.
WorkerSend(w) ==
    /\ ~crashed
    /\ wk[w].pc = "send"
    /\ Len(cSNPs) < NumCPU
    /\ cSNPs' = Append(cSNPs, wk[w].SL)
    /\ wk' = [wk EXCEPT ![w] = [pc |-> "recv", SL |-> ZeroSnpLine]]
    /\ UNCHANGED <<closestVars, selectVars>>
    /\ UNCHANGED <<input, rd, mainPc, refSeq, retval, wgSNPs, waiterPc,
                   closed, wr, header, out, crashed>>

\* range cFR ends once cFR is closed: getSNPs returns and wgSNPs.Done() runs.
WorkerExit(w) ==
    /\ ~crashed
    /\ wk[w].pc = "recv"
    /\ "cFR" \in closed
    /\ wk' = [wk EXCEPT ![w].pc = "ret"]
    /\ wgSNPs' = wgSNPs - 1
    /\ UNCHANGED <<closestVars, selectVars>>
    /\ UNCHANGED <<input, rd, mainPc, refSeq, retval, waiterPc, cSNPs,
                   closed, wr, header, out, crashed>>

\* WaiterWake as a goroutine would do it that signals cSNPsDone without
\* wgSNPs.Wait().
WaiterWakeWithoutWait ==
    /\ ~crashed
    /\ waiterPc = "wait"
    /\ waiterPc' = "send"
    /\ UNCHANGED <<closestVars, selectVars>>
    /\ UNCHANGED <<input, rd, mainPc, refSeq, retval, wk, wgSNPs, cSNPs,
                   closed, wr, header, out, crashed>>

\* wgSNPs.Wait() returns.
WaiterWake ==
    /\ ~crashed
    /\ waiterPc = "wait"
    /\ wgSNPs = 0
    /\ waiterPc' = "send"
    /\ UNCHANGED <<closestVars, selectVars>>
    /\ UNCHANGED <<input, rd, mainPc, refSeq, retval, wk, wgSNPs, cSNPs,
                   closed, wr, header, out, crashed>>

\* ------------------------------------------------------------- writeOutput
\* Lookup as a writer would do it that takes whatever record is buffered (the
\* one of least index) instead of the record at counter.
LookupAny(outputMap, counter) ==
    IF DOMAIN outputMap # {}
    THEN [ok |-> TRUE,
          SL |-> outputMap[CHOOSE k \in DOMAIN outputMap :
                              \A j \in DOMAIN outputMap : k <= j]]
    ELSE [ok |-> FALSE, SL |-> ZeroSnpLine]

\* SL, ok := outputMap[counter]
Lookup(outputMap, counter) ==
    IF counter \in DOMAIN outputMap
    THEN [ok |-> TRUE, SL |-> outputMap[counter]]
    ELSE [ok |-> FALSE, SL |-> ZeroSnpLine]

\* outputMap[snpLine.idx] = snpLine
Store(outputMap, snpLine) ==
    [k \in DOMAIN outputMap \cup {snpLine.idx} |->
        IF k = snpLine.idx THEN snpLine ELSE outputMap[k]]

\* Delete as a writer would do it that leaves the written record in the map.
DeleteNothing(outputMap, counter) == outputMap

\* delete(outputMap, counter)
Delete(outputMap, counter) ==
    [k \in DOMAIN outputMap \ {counter} |-> outputMap[k]]

\* The line written for SL: queryname "," snps joined by "|".
Row(SL) == [queryname |-> SL.queryname, snps |-> SL.snps]

\* w.Write([]byte("query,SNPs\n"))
WriterHeader ==
    /\ ~crashed
    /\ wr.pc = "header"
    /\ \E ok \in BOOLEAN :
          IF ok
          THEN /\ header' = header + 1
               /\ wr' = [wr EXCEPT !.pc = "recv"]
          ELSE /\ wr' = [wr EXCEPT !.pc = "err", !.err = "IOFailure"]
               /\ UNCHANGED header
    /\ UNCHANGED <<closestVars, selectVars>>
    /\ UNCHANGED <<input, rd, mainPc, refSeq, retval, wk, wgSNPs, waiterPc,
                   cSNPs, closed, out, crashed>>

\* RangeBody as a writer would do it that writes the record just received
\* (snpLine) where the code writes the record found at counter (SL).
RangeBodyWritesReceived(w, snpLine, ok) ==
    LET m == Store(w.outputMap, snpLine)
        l == Lookup(m, w.counter)
    IN  IF ~l.ok
        THEN [wr |-> [w EXCEPT !.outputMap = m], rows |-> <<>>]
        ELSE IF ~ok
        THEN [wr |-> [w EXCEPT !.outputMap = m, !.pc = "err",
                               !.err = "IOFailure"],
              rows |-> <<>>]
        ELSE [wr |-> [w EXCEPT !.outputMap = Delete(m, w.counter),
                               !.counter = w.counter + 1],
              rows |-> <<Row(snpLine)>>]

\* The writer's state after one pass of the body of `for snpLine := range
\* cSNPs`, and the rows it wrote: the record is stored, and the record at
\* counter, if present, is written (ok: whether w.Write succeeds).
RangeBody(w, snpLine, ok) ==
    LET m == Store(w.outputMap, snpLine)
        l == Lookup(m, w.counter)
    IN  IF ~l.ok
        THEN [wr |-> [w EXCEPT !.outputMap = m], rows |-> <<>>]
        ELSE IF ~ok
        THEN [wr |-> [w EXCEPT !.outputMap = m, !.pc = "err",
                               !.err = "IOFailure"],
              rows |-> <<>>]
        ELSE [wr |-> [w EXCEPT !.outputMap = Delete(m, w.counter),
                               !.counter = w.counter + 1],
              rows |-> <<Row(l.SL)>>]

\* One iteration of `for snpLine := range cSNPs`.
WriterRecv ==
    /\ ~crashed
    /\ wr.pc = "recv"
    /\ cSNPs # <<>>
    /\ \E ok \in BOOLEAN :
          LET r == RangeBody(wr, Head(cSNPs), ok)
          IN  /\ wr' = r.wr
              /\ out' = out \o r.rows
    /\ cSNPs' = Tail(cSNPs)
    /\ UNCHANGED <<closestVars, selectVars>>
    /\ UNCHANGED <<input, rd, mainPc, refSeq, retval, wk, wgSNPs, waiterPc,
                   closed, header, crashed>>

\* range cSNPs ends: the channel is closed and empty.
WriterRangeEnd ==
    /\ ~crashed
    /\ wr.pc = "recv"
    /\ cSNPs = <<>>
    /\ "cSNPs" \in closed
    /\ wr' = [wr EXCEPT !.pc = "drain"]
    /\ UNCHANGED <<closestVars, selectVars>>
    /\ UNCHANGED <<input, rd, mainPc, refSeq, retval, wk, wgSNPs, waiterPc,
                   cSNPs, closed, header, out, crashed>>

\* DrainBody as a writer would do it that has no final loop: it signals
\* cWriteDone as soon as range cSNPs ends.
DrainBodyNoFlush(w, ok) == [wr |-> [w EXCEPT !.pc = "done"], rows |-> <<>>]

\* The writer's state after one pass of the final loop, and the rows written.
DrainBody(w, ok) ==
    IF DOMAIN w.outputMap = {}
    THEN [wr |-> [w EXCEPT !.pc = "done"], rows |-> <<>>]
    ELSE IF ~ok
    THEN [wr |-> [w EXCEPT !.pc = "err", !.err = "IOFailure"], rows |-> <<>>]
    ELSE [wr |-> [w EXCEPT !.outputMap = Delete(w.outputMap, w.counter),
                           !.counter = w.counter + 1],
          rows |-> <<Row(Lookup(w.outputMap, w.counter).SL)>>]

\* One iteration of the final loop `for n := 1; n > 0;`.
WriterDrain ==
    /\ ~crashed
    /\ wr.pc = "drain"
    /\ wr.counter <= MaxRecords
    /\ \E ok \in BOOLEAN :
          LET r == DrainBody(wr, ok)
          IN  /\ wr' = r.wr
              /\ out' = out \o r.rows
    /\ UNCHANGED <<closestVars, selectVars>>
    /\ UNCHANGED <<input, rd, mainPc, refSeq, retval, wk, wgSNPs, waiterPc,
                   cSNPs, closed, header, crashed>>

\* -------------------------------------------------------------------- SNPs
\* MainLoops as a coordinator would have it whose last loop only waits for
\* cWriteDone, with no case for cErr.
MainLoopsNoErrInWriteLoop == {"refLoop", "frLoop", "snpsLoop"}

\* The coordinator's select loops: every one of them has `case err := <-cErr`.
MainLoops == {"refLoop", "frLoop", "snpsLoop", "writeLoop"}

\* case FR := <-cRef: refSeq = FR.Seq
MainRecvRef ==
    /\ ~crashed
    /\ mainPc = "refLoop"
    /\ rd["ref"].pc = "send"
    /\ refSeq' = CurFR("ref").Seq
    /\ rd' = [rd EXCEPT !["ref"].pc = "scan"]
    /\ UNCHANGED <<closestVars, selectVars>>
    /\ UNCHANGED <<input, mainPc, retval, wk, wgSNPs, waiterPc, cSNPs,
                   closed, wr, header, out, crashed>>

\* case <-cRefDone: close(cRef); then the query reader, the writer, the
\* workers and the wait-group goroutine are started.
MainRecvRefDone ==
    /\ ~crashed
    /\ mainPc = "refLoop"
    /\ rd["ref"].pc = "done"
    /\ closed' = closed \cup {"cRef"}
    /\ rd' = [rd EXCEPT !["ref"].pc = "ret", !["aln"].pc = "scan"]
    /\ wr' = [wr EXCEPT !.pc = "header"]
    /\ wk' = [w \in Workers |-> [pc |-> "recv", SL |-> ZeroSnpLine]]
    /\ wgSNPs' = NumCPU
    /\ waiterPc' = "wait"
    /\ mainPc' = "frLoop"
    /\ UNCHANGED <<closestVars, selectVars>>
    /\ UNCHANGED <<input, refSeq, retval, cSNPs, header, out, crashed>>

\* case err := <-cErr: return err (a reader's error)
MainRecvErrReader(r) ==
    /\ ~crashed
    /\ mainPc \in MainLoops
    /\ rd[r].pc = "err"
    /\ retval' = rd[r].err
    /\ mainPc' = "ret"
    /\ rd' = [rd EXCEPT ![r].pc = "ret"]
    /\ UNCHANGED <<closestVars, selectVars>>
    /\ UNCHANGED <<input, refSeq, wk, wgSNPs, waiterPc, cSNPs, closed, wr,
                   header, out, crashed>>

\* case err := <-cErr: return err (the writer's error)
MainRecvErrWriter ==
    /\ ~crashed
    /\ mainPc \in MainLoops
    /\ wr.pc = "err"
    /\ retval' = wr.err
    /\ mainPc' = "ret"
    /\ wr' = [wr EXCEPT !.pc = "ret"]
    /\ UNCHANGED <<closestVars, selectVars>>
    /\ UNCHANGED <<input, rd, refSeq, wk, wgSNPs, waiterPc, cSNPs, closed,
                   header, out, crashed>>

\* case <-cFRDone: close(cFR)
MainRecvFRDone ==
    /\ ~crashed
    /\ mainPc = "frLoop"
    /\ rd["aln"].pc = "done"
    /\ closed' = closed \cup {"cFR"}
    /\ rd' = [rd EXCEPT !["aln"].pc = "ret"]
    /\ mainPc' = "snpsLoop"
    /\ UNCHANGED <<closestVars, selectVars>>
    /\ UNCHANGED <<input, refSeq, retval, wk, wgSNPs, waiterPc, cSNPs, wr,
                   header, out, crashed>>

\* case <-cSNPsDone: close(cSNPs)
MainRecvSNPsDone ==
    /\ ~crashed
    /\ mainPc = "snpsLoop"
    /\ waiterPc = "send"
    /\ closed' = closed \cup {"cSNPs"}
    /\ waiterPc' = "ret"
    /\ mainPc' = "writeLoop"
    /\ UNCHANGED <<closestVars, selectVars>>
    /\ UNCHANGED <<input, rd, refSeq, retval, wk, wgSNPs, cSNPs, wr, header,
                   out, crashed>>

\* case <-cWriteDone: return nil
MainRecvWriteDone ==
    /\ ~crashed
    /\ mainPc = "writeLoop"
    /\ wr.pc = "done"
    /\ wr' = [wr EXCEPT !.pc = "ret"]
    /\ retval' = "nil"
    /\ mainPc' = "ret"
    /\ UNCHANGED <<closestVars, selectVars>>
    /\ UNCHANGED <<input, rd, refSeq, wk, wgSNPs, waiterPc, cSNPs, closed,
                   header, out, crashed>>

\* ========================================================= package closest
\* The nucleotide codes the closest-match inputs are drawn from: A, C and N.
ClosestCodes == {136, 40, 240}
\* The codes of the batch runner's inputs (no ambiguity): A and C.
BatchCodes == {136, 40}

\* The largest number of query records.
MaxQueries == 3
\* The largest number of target records.
MaxTargets == 2
\* The largest thread hint.
MaxThreads == 4
\* The selector on its own: the largest number of targets and of columns.
MaxSelTargets == 3
MaxSelLen == 2
\* One query against one target: the largest number of columns.
MaxPairLen == 2
\* Every code of the encoding table.
TableCodes == {136, 72, 40, 24, 192, 240, 244}

\* encoding.MakeScoreDict: the completeness score of a code.
ScoreDict(code) ==
    CASE code \in {136, 72, 40, 24} -> 12
      [] code = 192 -> 6
      [] code \in {240, 244} -> 3
      [] OTHER -> 0

\* encoding.MakeNucDict: bit-level code -> character.
NucDict(code) == DecodingArray(code)

\* The names of the query and target records (distinct, in input order).
Qname(i) == "q" \o ToString(i)
Tname(i) == "t" \o ToString(i)

\* A float64 quotient differences / denominator of two small counts, kept as
\* the pair: den = 0 is 0/0, NaN.
IsNaN(f) == f.den = 0

\* Go's == and < on float64: both are false when either side is NaN.
FloatEq(a, b) == ~IsNaN(a) /\ ~IsNaN(b) /\ a.num * b.den = b.num * a.den
FloatLt(a, b) == ~IsNaN(a) /\ ~IsNaN(b) /\ a.num * b.den < b.num * a.den

\* diffScan as a comparison would do it that divides by the number of
\* columns: every column counts towards the denominator.
RECURSIVE diffScanAllColumns(_, _, _, _, _)
diffScanAllColumns(targetV, queryV, r, differences, denominator) ==
    IF r > Len(queryV)
    THEN [num |-> differences, den |-> denominator]
    ELSE diffScanAllColumns(targetV, queryV, r + 1,
                            IF BitAnd(targetV[r], queryV[r]) < 16
                            THEN differences + 1 ELSE differences,
                            denominator + 1)

\* The loop over r of getDifferenceMatrix from column r on, with the counts so
\* far: differences / denominator.
RECURSIVE diffScan(_, _, _, _, _)
diffScan(targetV, queryV, r, differences, denominator) ==
    IF r > Len(queryV)
    THEN [num |-> differences, den |-> denominator]
    ELSE LET x == targetV[r]
             y == queryV[r]
             different == BitAnd(x, y) < 16
             same == BitAnd(x, 8) = 8 /\ x = y
         IN  diffScan(targetV, queryV, r + 1,
                      IF different THEN differences + 1 ELSE differences,
                      IF different \/ same THEN denominator + 1
                      ELSE denominator)

\* getDifferenceMatrix: D[queryIndex][targetIndex], over the query's columns.
getDifferenceMatrix(queryA, targetA) ==
    [queryIndex \in 1..Len(queryA) |->
        [targetIndex \in 1..Len(targetA) |->
            diffScan(targetA[targetIndex], queryA[queryIndex], 1, 0, 0)]]

\* The sum of a sequence of integers.
RECURSIVE scoreSum(_, _)
scoreSum(V, i) ==
    IF i > Len(V) THEN 0 ELSE ScoreDict(V[i]) + scoreSum(V, i + 1)

\* scoreAlignment: one completeness score per record.
scoreAlignment(A) == [i \in 1..Len(A) |-> scoreSum(A[i], 1)]

\* getMinFloatIndices's loop from i on, with min and I so far.
RECURSIVE minScan(_, _, _, _)
minScan(V, i, min, I) ==
    IF i > Len(V)
    THEN I
    ELSE IF i = 1
    THEN minScan(V, i + 1, V[i], Append(I, i))
    ELSE IF FloatEq(V[i], min)
    THEN minScan(V, i + 1, min, Append(I, i))
    ELSE IF FloatLt(V[i], min)
    THEN minScan(V, i + 1, V[i], <<i>>)
    ELSE minScan(V, i + 1, min, I)

\* getMinFloatIndices: the indices (1-based here) of the minimum value(s).
getMinFloatIndices(V) == minScan(V, 1, [num |-> 0, den |-> 1], <<>>)

\* getMaxIntIndices's loop from i on, with max and I so far.
RECURSIVE maxScan(_, _, _, _)
maxScan(V, i, max, I) ==
    IF i > Len(V)
    THEN I
    ELSE IF i = 1
    THEN maxScan(V, i + 1, V[i], Append(I, i))
    ELSE IF V[i] = max
    THEN maxScan(V, i + 1, max, Append(I, i))
    ELSE IF V[i] > max
    THEN maxScan(V, i + 1, V[i], <<i>>)
    ELSE maxScan(V, i + 1, max, I)

\* getMaxIntIndices: the indices (1-based here) of the maximum value(s).
getMaxIntIndices(V) == maxScan(V, 1, 0, <<>>)

\* getBestTargetIndex: the closest target, ties broken by completeness.
getBestTargetIndex(differencesV, completenessV) ==
    LET distanceMinIndices == getMinFloatIndices(differencesV)
    IN  IF Len(distanceMinIndices) > 1
        THEN LET completenesses ==
                     [k \in 1..Len(distanceMinIndices) |->
                         completenessV[distanceMinIndices[k]]]
                 completenessMaxIndices == getMaxIntIndices(completenesses)
             IN  distanceMinIndices[completenessMaxIndices[1]]
        ELSE distanceMinIndices[1]

\* closestSnpScan as a comparison would do it that reports the loop's own
\* 0-based r as the position.
RECURSIVE closestSnpScanZeroBased(_, _, _)
closestSnpScanZeroBased(queryV, targetV, r) ==
    IF r > Len(targetV)
    THEN <<>>
    ELSE (IF BitAnd(queryV[r], targetV[r]) < 16
          THEN <<[pos |-> r - 1, nucQ |-> NucDict(queryV[r]),
                  nucT |-> NucDict(targetV[r])]>>
          ELSE <<>>) \o closestSnpScanZeroBased(queryV, targetV, r + 1)

\* closest.getSNPs's loop from column r on (r is 1-based here).
RECURSIVE closestSnpScan(_, _, _)
closestSnpScan(queryV, targetV, r) ==
    IF r > Len(targetV)
    THEN <<>>
    ELSE (IF BitAnd(queryV[r], targetV[r]) < 16
          THEN <<[pos |-> r, nucQ |-> NucDict(queryV[r]),
                  nucT |-> NucDict(targetV[r])]>>
          ELSE <<>>) \o closestSnpScan(queryV, targetV, r + 1)

\* closest.getSNPs: the SNPs between a query and a target.
closestGetSNPs(queryV, targetV) == closestSnpScan(queryV, targetV, 1)

\* processChunk's row for the query at position queryi of the chunk, whose
\* first query is number start (0-based) of the alignment.
chunkRow(D, chunkQA, start, queryi) ==
    LET bestIndx == getBestTargetIndex(D[queryi], targetScores)
        SNPs == closestGetSNPs(chunkQA[queryi], TA[bestIndx])
    IN  [query |-> Qname(start + queryi - 1),
         closest |-> Tname(bestIndx - 1),
         SNPdistance |-> Len(SNPs),
         SNPs |-> SNPs]

\* processChunk: the rows of the chunk QA[start:end].
processChunkRows(start, end) ==
    LET chunkQA == SubSeq(QA, start + 1, end)
        D == getDifferenceMatrix(chunkQA, TA)
    IN  [queryi \in 1..Len(chunkQA) |-> chunkRow(D, chunkQA, start, queryi)]

\* ----------------------------------------------------------------- Closest
\* NGoRoutines := threads; if NGoRoutines > len(QA) { NGoRoutines = len(QA) }
workerCount(t, nQueries) == IF t > nQueries THEN nQueries ELSE t

\* chunkSize := int(math.Floor(float64(len(QA)) / float64(NGoRoutines)))
chunkSizeOf(nQueries, n) == nQueries \div n

\* start := i * chunkSize
chunkStart(i) == i * chunkSize

\* chunkEnd as a coordinator would compute it that does not extend the last
\* chunk to the end of the alignment.
chunkEndNoTail(i) == chunkStart(i) + chunkSize

\* end := start + chunkSize; if i == NGoRoutines-1 { end = len(QA) }
chunkEnd(i) ==
    IF i = NGoRoutines - 1 THEN Len(QA) ELSE chunkStart(i) + chunkSize

\* collectSlot as a coordinator would do it that stores the results in the
\* order they arrive: sorted[i] = output.rows.
collectSlotArrival(output, i) == i + 1

\* sorted[output.id] = output.rows: the slot (1-based here) a result goes to.
collectSlot(output, i) == output.id + 1

\* widthMismatch as a coordinator would do it that does not compare the
\* widths of the two alignments.
widthMismatchUnchecked(Q, T) == FALSE

\* len(QA[0]) != len(TA[0])
widthMismatch(Q, T) == Len(Q[1]) # Len(T[1])

\* Closest up to the start of the workers: the width check, the scores, the
\* number of goroutines and the chunk size.
ClosestLoad ==
    /\ closestPc = "load"
    /\ IF widthMismatch(QA, TA)
       THEN /\ closestPc' = "ret"
            /\ closestRet' = "query and target alignments are not the same width"
            /\ UNCHANGED <<targetScores, NGoRoutines, chunkSize, sorted>>
       ELSE /\ targetScores' = scoreAlignment(TA)
            /\ NGoRoutines' = workerCount(threads, Len(QA))
            /\ chunkSize' = chunkSizeOf(Len(QA), workerCount(threads, Len(QA)))
            /\ sorted' = <<>>
            /\ closestPc' = "spawn"
            /\ UNCHANGED closestRet
    /\ UNCHANGED <<QA, TA, threads, procs, collected, outfile>>
    /\ UNCHANGED <<snpsVars, selectVars>>

\* go processChunk(ch, i, QA[start:end], ...), for i = len(procs); after the
\* last one, sorted := make([][]string, NGoRoutines).
ClosestSpawn ==
    /\ closestPc = "spawn"
    /\ LET i == Len(procs)
       IN  /\ procs' = Append(procs, [id |-> i, start |-> chunkStart(i),
                                      end |-> chunkEnd(i), pc |-> "run",
                                      rows |-> <<>>])
           /\ IF i + 1 = NGoRoutines
              THEN /\ closestPc' = "collect"
                   /\ sorted' = [k \in 1..NGoRoutines |-> <<>>]
              ELSE UNCHANGED <<closestPc, sorted>>
    /\ UNCHANGED <<QA, TA, threads, targetScores, NGoRoutines, chunkSize,
                   collected, outfile, closestRet>>
    /\ UNCHANGED <<snpsVars, selectVars>>

\* processChunk computes its rows and blocks sending them on ch.
ProcessChunk(p) ==
    /\ procs[p].pc = "run"
    /\ procs' = [procs EXCEPT ![p].pc = "send",
                              ![p].rows = processChunkRows(procs[p].start,
                                                           procs[p].end)]
    /\ UNCHANGED <<QA, TA, threads, closestPc, targetScores, NGoRoutines,
                   chunkSize, sorted, collected, outfile, closestRet>>
    /\ UNCHANGED <<snpsVars, selectVars>>

\* output := <-ch; sorted[output.id] = output.rows; after the last one,
\* close(ch).
ClosestCollect(p) ==
    /\ closestPc = "collect"
    /\ procs[p].pc = "send"
    /\ sorted' = [sorted EXCEPT ![collectSlot(procs[p], collected)] =
                                    procs[p].rows]
    /\ procs' = [procs EXCEPT ![p].pc = "ret"]
    /\ collected' = collected + 1
    /\ closestPc' = IF collected + 1 = NGoRoutines THEN "write" ELSE "collect"
    /\ UNCHANGED <<QA, TA, threads, targetScores, NGoRoutines, chunkSize,
                   outfile, closestRet>>
    /\ UNCHANGED <<snpsVars, selectVars>>

\* The rows of A, chunk after chunk.
RECURSIVE flatten(_, _)
flatten(A, i) == IF i > Len(A) THEN <<>> ELSE A[i] \o flatten(A, i + 1)

\* writeResults: the file after the call and the error returned, when the
\* first failing operation is number failAt (0: os.Create, 1: the header,
\* k + 1: row k; beyond the last row: none fails).
writeResults(A, failAt) ==
    LET rows == flatten(A, 1)
    IN  IF failAt = 0
        THEN [file |-> [created |-> FALSE, header |-> 0, rows |-> <<>>],
              err |-> "IOFailure"]
        ELSE IF failAt = 1
        THEN [file |-> [created |-> TRUE, header |-> 0, rows |-> <<>>],
              err |-> "IOFailure"]
        ELSE IF failAt - 1 <= Len(rows)
        THEN [file |-> [created |-> TRUE, header |-> 1,
                        rows |-> SubSeq(rows, 1, failAt - 2)],
              err |-> "IOFailure"]
        ELSE [file |-> [created |-> TRUE, header |-> 1, rows |-> rows],
              err |-> "nil"]

\* writeResults(sorted, outfile); return nil
ClosestWrite ==
    /\ closestPc = "write"
    /\ \E failAt \in 0..(Len(QA) + 2) :
          outfile' = writeResults(sorted, failAt)
    /\ closestRet' = "nil"
    /\ closestPc' = "ret"
    /\ UNCHANGED <<QA, TA, threads, targetScores, NGoRoutines, chunkSize,
                   procs, sorted, collected>>
    /\ UNCHANGED <<snpsVars, selectVars>>

\* ------------------------------------------------- the selector on its own
\* The query's distances to the targets and the targets' scores, as
\* processChunk and Closest compute them.
SelectScore ==
    /\ selPc = "init"
    /\ selD' = getDifferenceMatrix(QA, TA)[1]
    /\ targetScores' = scoreAlignment(TA)
    /\ selPc' = "scored"
    /\ UNCHANGED <<selBest, selRow, selSL>>
    /\ UNCHANGED <<QA, TA, threads, closestPc, NGoRoutines, chunkSize, procs,
                   sorted, collected, outfile, closestRet>>
    /\ UNCHANGED snpsVars

\* bestIndx := getBestTargetIndex(D[queryi], targetScores);
\* the row processChunk builds from it (SNPs := getSNPs(QA[queryi],
\* TA[bestIndx]), SNPdistance := len(SNPs)); and what the SNPs workload's
\* getSNPs makes of the same query with the chosen target as the reference.
SelectBest ==
    /\ selPc = "scored"
    /\ LET bestIndx == getBestTargetIndex(selD, targetScores)
       IN  /\ selBest' = bestIndx
           /\ selRow' = chunkRow(<<selD>>, QA, 0, 1)
           /\ selSL' = getSNPs(TA[bestIndx],
                               [ID |-> Qname(0), Seq |-> QA[1], Idx |-> 0])
    /\ selPc' = "done"
    /\ UNCHANGED selD
    /\ UNCHANGED <<closestVars, snpsVars>>

\* ------------------------------------------------------------ specification
\* The alignments of n records of w columns over the codes C.
Alignments(C, n, w) == [1..n -> [1..w -> C]]

\* The alignments of n records of w columns, each a run of one code of C.
UniformAlignments(C, n, w) == [1..n -> {[i \in 1..w |-> c] : c \in C}]

SNPsInit ==
    /\ input = [r \in Readers |-> <<>>]
    /\ rd = [r \in Readers |->
                [pc |-> IF r = "ref" THEN "scan" ELSE "idle", err |-> "none"]]
    /\ mainPc = "refLoop"
    /\ refSeq = <<>>
    /\ retval = "none"
    /\ wk = [w \in Workers |-> [pc |-> "idle", SL |-> ZeroSnpLine]]
    /\ wgSNPs = 0
    /\ waiterPc = "idle"
    /\ cSNPs = <<>>
    /\ closed = {}
    /\ wr = [pc |-> "idle", outputMap |-> <<>>, counter |-> 0, err |-> "none"]
    /\ header = 0
    /\ out = <<>>
    /\ crashed = FALSE

\* The coordinator of Closest with the alignments loaded.
ClosestInit ==
    /\ closestPc = "load"
    /\ targetScores = <<>>
    /\ NGoRoutines = 0
    /\ chunkSize = 0
    /\ procs = <<>>
    /\ sorted = <<>>
    /\ collected = 0
    /\ outfile = [file |-> [created |-> FALSE, header |-> 0, rows |-> <<>>],
                  err |-> "none"]
    /\ closestRet = "none"

SelectInit ==
    /\ selPc = "init"
    /\ selD = <<>>
    /\ selBest = 0
    /\ selRow = [query |-> "", closest |-> "", SNPdistance |-> 0,
                 SNPs |-> <<>>]
    /\ selSL = ZeroSnpLine

\* The SNPs workload: no closest-match run.
Init ==
    /\ SNPsInit
    /\ ClosestInit
    /\ SelectInit
    /\ QA = <<>>
    /\ TA = <<>>
    /\ threads = 0

Next ==
    \/ \E r \in Readers : ReaderScan(r)
    \/ \E w \in Workers : WorkerRecv(w)
    \/ \E w \in Workers : WorkerSend(w)
    \/ \E w \in Workers : WorkerExit(w)
    \/ WaiterWake
    \/ WriterHeader
    \/ WriterRecv
    \/ WriterRangeEnd
    \/ WriterDrain
    \/ MainRecvRef
    \/ MainRecvRefDone
    \/ \E r \in Readers : MainRecvErrReader(r)
    \/ MainRecvErrWriter
    \/ MainRecvFRDone
    \/ MainRecvSNPsDone
    \/ MainRecvWriteDone

Spec == Init /\ [][Next]_vars

\* The same under fair scheduling: while some goroutine can take a step, a
\* step is eventually taken.
FairSpec == Init /\ [][Next]_vars /\ WF_vars(Next)

\* The closest-match workload: the query and target alignments, each of one
\* width, and the thread hint.
InitClosest ==
    /\ SNPsInit
    /\ ClosestInit
    /\ SelectInit
    /\ \E n \in 1..MaxQueries, w \in 1..MaxLen :
          QA \in UniformAlignments(BatchCodes, n, w)
    /\ \E n \in 1..MaxTargets, w \in 1..MaxLen :
          TA \in UniformAlignments(BatchCodes, n, w)
    /\ threads \in 1..MaxThreads

NextClosest ==
    \/ ClosestLoad
    \/ ClosestSpawn
    \/ \E p \in 1..Len(procs) : ProcessChunk(p)
    \/ \E p \in 1..Len(procs) : ClosestCollect(p)
    \/ ClosestWrite

SpecClosest == InitClosest /\ [][NextClosest]_vars

\* The selector: one query and the targets, all of one width.
InitSelect ==
    /\ SNPsInit
    /\ ClosestInit
    /\ SelectInit
    /\ \E n \in 1..MaxSelTargets, w \in 1..MaxSelLen :
          /\ QA \in Alignments(ClosestCodes, 1, w)
          /\ TA \in Alignments(ClosestCodes, n, w)
    /\ threads = 1

NextSelect ==
    \/ SelectScore
    \/ SelectBest

SpecSelect == InitSelect /\ [][NextSelect]_vars

\* One query against one target of the same width, over the whole table.
InitPair ==
    /\ SNPsInit
    /\ ClosestInit
    /\ SelectInit
    /\ \E w \in 1..MaxPairLen :
          /\ QA \in Alignments(TableCodes, 1, w)
          /\ TA \in Alignments(TableCodes, 1, w)
    /\ threads = 1

SpecPair == InitPair /\ [][NextSelect]_vars

\* ================================================================== claims
\* The records reader r decoded and sent: what it scanned, less the record
\* it failed on.
Decoded(r) ==
    IF rd[r].err # "none"
    THEN SubSeq(input[r], 1, Len(input[r]) - 1)
    ELSE input[r]

\* The row of the query record at position k (1-based) of the alignment.
ExpectedRow(k) ==
    Row(getSNPs(refSeq, EncodeRecord(input["aln"][k], k - 1)))

\* SNPs returned an error.
ReturnedError == retval \notin {"none", "nil"}

\* C1: whatever the order in which the workers deliver their results, the
\* k-th row written is the row of the record with index k: the rows are in
\* strictly ascending index order.
C1_OrderPreserved ==
    \A k \in 1..Len(out) : out[k].queryname = RecordID(k - 1)

\* C1's case: a row is written while a later record waits in the buffer and
\* the record in between has not reached the writer (out-of-order delivery).
C1_OutOfOrderDelivery ==
    /\ Len(out) >= 1
    /\ wr.counter \notin DOMAIN wr.outputMap
    /\ \E k \in DOMAIN wr.outputMap : k > wr.counter

\* C2: when SNPs returns nil the output is the header and exactly one row per
\* query record, in order, and nothing is left in the reader, the workers,
\* the result channel or the reorder buffer.
C2_CompleteOnSuccess ==
    retval = "nil" =>
        /\ header = 1
        /\ Len(out) = Len(input["aln"])
        /\ \A k \in 1..Len(out) : out[k] = ExpectedRow(k)
        /\ DOMAIN wr.outputMap = {}
        /\ cSNPs = <<>>
        /\ rd["aln"] = [pc |-> "ret", err |-> "none"]
        /\ \A w \in Workers : wk[w] = [pc |-> "ret", SL |-> ZeroSnpLine]

\* C2's case: SNPs returned nil for an alignment of several records.
C2_ReturnedNil == retval = "nil" /\ Len(out) >= 2

\* C3 (as claimed): whenever the writer waits for a further result, the
\* record at the next expected index is not in the reorder buffer.
C3_EagerFlush ==
    wr.pc = "recv" => wr.counter \notin DOMAIN wr.outputMap

C5_FirstReferenceRecord ==
    (mainPc # "refLoop" /\ rd["ref"].err = "none" /\ input["ref"] # <<>>) =>
        refSeq = EncodeRecord(input["ref"][1], 0).Seq

\* C6 (as claimed): with a reference of at least one record, a query record
\* of another width makes the run fail with an error: no crash, no row, and
\* SNPs does not return nil.
C6_WidthMismatchFails ==
    (/\ mainPc # "refLoop"
     /\ input["ref"] # <<>>
     /\ \E k \in 1..Len(Decoded("aln")) :
           Len(Decoded("aln")[k]) # Len(refSeq)) =>
        /\ ~crashed
        /\ out = <<>>
        /\ retval # "nil"

\* ------------------------------------------------ the selector (SpecSelect)
\* The targets whose distance to the query is defined.
Defined(D) == {j \in 1..Len(D) : ~IsNaN(D[j])}

\* a <= b for two defined distances.
Leq(a, b) == a.num * b.den <= b.num * a.den

\* The targets at the minimum distance: among the defined distances when
\* there is one, and every target when every distance is undefined.
MinIndices(D) ==
    IF Defined(D) = {}
    THEN 1..Len(D)
    ELSE {j \in Defined(D) : \A k \in Defined(D) : Leq(D[j], D[k])}

\* Among the targets at the minimum distance, those of the highest score.
MostComplete(D, S) ==
    {j \in MinIndices(D) : \A k \in MinIndices(D) : S[j] >= S[k]}

\* The first target of the minimum distance and, among these, of the highest
\* score.
ExpectedBest(D, S) ==
    CHOOSE j \in MostComplete(D, S) : \A k \in MostComplete(D, S) : j <= k

\* C7 (as claimed): for a distance vector with a minimum (some distance is
\* defined), getBestTargetIndex returns the first index whose distance is
\* the minimum and whose score is the highest among the indices at the
\* minimum.
C7_BestIsMinThenMostComplete ==
    (selPc = "done" /\ Defined(selD) # {}) =>
        selBest = ExpectedBest(selD, targetScores)

\* C7 on the vectors without an undefined distance: this holds, so C7's
\* divergence is confined to vectors with an undefined (0/0) entry.
BestOnDefinedDistances ==
    (selPc = "done" /\ Defined(selD) = 1..Len(selD)) =>
        selBest = ExpectedBest(selD, targetScores)

\* C8 (as claimed): when every distance is undefined, or every distance is
\* defined and the minimum is zero, the target returned is one at the minimum
\* with the highest completeness score among the targets at the minimum.
C8_TieBreakAtZeroOrUndefined ==
    (/\ selPc = "done"
     /\ \/ Defined(selD) = {}
        \/ /\ Defined(selD) = 1..Len(selD)
           /\ \E j \in Defined(selD) : selD[j].num = 0) =>
        selBest \in MostComplete(selD, targetScores)

\* C8 when the minimum distance is zero and no distance is undefined: this
\* holds, so C8's divergence is confined to the undefined distances.
TieBreakAtZero ==
    (/\ selPc = "done"
     /\ Defined(selD) = 1..Len(selD)
     /\ \E j \in Defined(selD) : selD[j].num = 0) =>
        selBest \in MostComplete(selD, targetScores)

\* --------------------------------------------- the batch runner (SpecClosest)
\* The workers are all started.
AllStarted == closestPc \in {"collect", "write"} \/ outfile.err # "none"

\* The slots of sorted that hold a chunk's rows.
Filled == {k \in 1..Len(sorted) : sorted[k] # <<>>}

\* The smaller of two numbers.
Min(a, b) == IF a < b THEN a ELSE b

\* C9: whatever the order in which the workers send, every result received
\* fills the slot of its chunk id, no slot is filled twice, all slots are
\* filled before writeResults is called, and the rows handed over (and
\* written, when no write fails) are one per query record in input order.
C9_CollectRestoresOrder ==
    /\ closestPc = "collect" =>
          /\ Cardinality(Filled) = collected
          /\ Filled = {procs[p].id + 1 : p \in {q \in 1..Len(procs) :
                                                 procs[q].pc = "ret"}}
    /\ (closestPc = "write" \/ outfile.err # "none") =>
          /\ Filled = 1..NGoRoutines
          /\ \A p \in 1..Len(procs) : procs[p].pc = "ret"
          /\ Len(flatten(sorted, 1)) = Len(QA)
          /\ \A j \in 1..Len(QA) : flatten(sorted, 1)[j].query = Qname(j - 1)
    /\ outfile.err = "nil" =>
          /\ outfile.file.header = 1
          /\ outfile.file.rows = flatten(sorted, 1)

\* C9's case: the result of a later chunk is stored while an earlier chunk's
\* slot is still empty.
C9_LaterChunkFirst ==
    /\ closestPc = "collect"
    /\ \E k \in Filled : \E j \in 1..(k - 1) : j \notin Filled

\* C10: Closest starts min(threads, Q) workers; their chunks are non-empty,
\* start at 0, each starts where the one before ends, and the last ends at
\* Q, in chunk-id order.
C10_ChunksPartition ==
    /\ \A p \in 1..Len(procs) :
          /\ procs[p].id = p - 1
          /\ procs[p].start < procs[p].end
          /\ procs[p].start = IF p = 1 THEN 0 ELSE procs[p - 1].end
          /\ procs[p].end <= Len(QA)
    /\ AllStarted =>
          /\ Len(procs) = Min(threads, Len(QA))
          /\ procs[Len(procs)].end = Len(QA)

\* C10's case: several workers and a query count that is no multiple of the
\* worker count.
C10_UnevenChunks ==
    /\ AllStarted
    /\ NGoRoutines >= 2
    /\ Len(QA) % NGoRoutines # 0

\* C11 (as claimed): when writeResults fails (the file cannot be created or a
\* write to it fails), Closest does not return nil.
C11_WriteErrorSurfaced ==
    (closestPc = "ret" /\ outfile.err = "IOFailure") => closestRet # "nil"

\* The stages that have reported a failure: a reader or the writer that has
\* an error to send, or has sent it, on cErr.
Reported ==
    {rd[r].err : r \in {r \in Readers : rd[r].err # "none"}}
        \cup (IF wr.err # "none" THEN {wr.err} ELSE {})

\* A stage is blocked sending its error on cErr.
SendingErr == wr.pc = "err" \/ \E r \in Readers : rd[r].pc = "err"

\* C12: SNPs never returns nil in a run in which a stage reported a failure;
\* the error it returns is one a stage reported; and while a stage is blocked
\* sending its error, the coordinator is in a select loop that receives from
\* cErr, unless it has already returned an error.
C12_ErrorAbortsRun ==
    /\ retval = "nil" => Reported = {}
    /\ ReturnedError => retval \in Reported
    /\ (SendingErr /\ ~crashed) => (mainPc \in MainLoops \/ ReturnedError)

\* C12's case: the writer's error was returned while the coordinator waited
\* for cWriteDone, after both readers had finished without error.
C12_WriterErrorInLastLoop ==
    /\ ReturnedError
    /\ wr.err # "none"
    /\ wr.pc = "ret"
    /\ "cSNPs" \in closed
    /\ \A r \in Readers : rd[r].err = "none"

\* The columns of the query and target j that are different, same-confirmed
\* and uninformative.
DifferentCols(j) ==
    {r \in 1..Len(QA[1]) : BitAnd(TA[j][r], QA[1][r]) < 16}
SameCols(j) ==
    {r \in 1..Len(QA[1]) : BitAnd(TA[j][r], 8) = 8 /\ TA[j][r] = QA[1][r]}
UninformativeCols(j) ==
    (1..Len(QA[1])) \ (DifferentCols(j) \cup SameCols(j))

\* C13: for a query and a target of equal length over the encoding table, no
\* column is both different and same-confirmed, the three classes add up to
\* the length, the numerator of the distance is the number of different
\* columns and its denominator is different + same-confirmed.
C13_DenominatorPartition ==
    selPc # "init" =>
        \A j \in 1..Len(TA) :
            /\ DifferentCols(j) \cap SameCols(j) = {}
            /\ Cardinality(DifferentCols(j)) + Cardinality(SameCols(j))
                  + Cardinality(UninformativeCols(j)) = Len(QA[1])
            /\ selD[j].num = Cardinality(DifferentCols(j))
            /\ selD[j].den = Cardinality(DifferentCols(j))
                                + Cardinality(SameCols(j))

\* C13's case: a distance computed over a pair with a different column and
\* an uninformative column.
C13_MixedColumns ==
    /\ selPc # "init"
    /\ DifferentCols(1) # {}
    /\ UninformativeCols(1) # {}

\* The positions (1-based) a list of Difference Records reports, in order.
Positions(snps) == [k \in 1..Len(snps) |-> snps[k].pos]

\* A list of positions is strictly ascending and is exactly the set cols.
ExactlyAscending(P, cols) ==
    /\ \A k \in 1..(Len(P) - 1) : P[k] < P[k + 1]
    /\ {P[k] : k \in 1..Len(P)} = cols

\* C14: the Difference Records of a query and the chosen target, in both
\* workloads, are exactly the columns with (x & y) < 16, once each, in
\* ascending order of the 1-based position, each with the base of either side
\* (the character that encodes to the code in that column); and the
\* SNPdistance of the row is their number, which is the numerator of the
\* pair's distance.
C14_DifferenceRecords ==
    selPc = "done" =>
        /\ ExactlyAscending(Positions(selRow.SNPs), DifferentCols(selBest))
        /\ \A k \in 1..Len(selRow.SNPs) :
              /\ EncodingArray(selRow.SNPs[k].nucQ) = QA[1][selRow.SNPs[k].pos]
              /\ EncodingArray(selRow.SNPs[k].nucT)
                    = TA[selBest][selRow.SNPs[k].pos]
        /\ ExactlyAscending(Positions(selSL.snps), DifferentCols(selBest))
        /\ \A k \in 1..Len(selSL.snps) :
              /\ EncodingArray(selSL.snps[k].ref)
                    = TA[selBest][selSL.snps[k].pos]
              /\ EncodingArray(selSL.snps[k].alt) = QA[1][selSL.snps[k].pos]
        /\ selRow.SNPdistance = Len(selRow.SNPs)
        /\ selRow.SNPdistance = selD[selBest].num
        /\ selRow.closest = Tname(selBest - 1)

\* C14's case: a row for a query that differs from the chosen target in its
\* last column and not in its first.
C14_SomeColumnsDiffer ==
    /\ selPc = "done"
    /\ Len(QA[1]) \in DifferentCols(selBest)
    /\ 1 \notin DifferentCols(selBest)

\* C15: when the query and the target alignment differ in width, Closest
\* returns the width error and has done nothing else: no completeness score
\* is computed, no processChunk goroutine is started, nothing is collected
\* and the output file is neither created nor written.
C15_WidthMismatchBeforeWork ==
    Len(QA[1]) # Len(TA[1]) =>
        /\ closestPc \in {"load", "ret"}
        /\ closestPc = "ret" =>
              closestRet = "query and target alignments are not the same width"
        /\ targetScores = <<>>
        /\ procs = <<>>
        /\ collected = 0
        /\ outfile = [file |-> [created |-> FALSE, header |-> 0,
                                rows |-> <<>>],
                      err |-> "none"]

\* C15's case: Closest returned for alignments of different widths, with
\* more queries than one and a thread hint that asks for several workers.
C15_ReturnedOnMismatch ==
    /\ closestPc = "ret"
    /\ Len(QA[1]) # Len(TA[1])
    /\ Len(QA) > 1
    /\ threads > 1

\* C16 (as claimed): when the reference stream ends without a record, SNPs
\* returns EmptyInput: the query reader, the writer and the workers are not
\* started, no row is written and nothing crashes.
C16_EmptyReferenceFails ==
    (mainPc # "refLoop" /\ input["ref"] = <<>>) =>
        /\ retval = "EmptyInput"
        /\ rd["aln"].pc = "idle"
        /\ wr.pc = "idle"
        /\ out = <<>>
        /\ ~crashed

\* C17 (as claimed): under fair scheduling every run of SNPs eventually
\* returns, nil or an error.
C17_EventuallyReturns == <>(retval # "none")

\* What holds instead under fair scheduling: every run eventually returns or
\* is ended by a goroutine's panic, and SNPs returns once only.
EventuallyReturnsOrPanics == <>(retval # "none" \/ crashed)
ReturnsOnce == [][retval # "none" => retval' = retval]_vars

\* The indices of the results the writer has taken from cSNPs: written
\* (below counter) or held in outputMap.
Delivered == (0..(Len(out) - 1)) \cup DOMAIN wr.outputMap

\* C18: a channel is closed only after its senders have finished. cRef and
\* cFR are closed only once their reader has signalled done and returned;
\* cSNPs is closed only once every worker has returned and the wait group is
\* at zero, so no worker holds a result to send on a closed channel; and when
\* the writer has seen the end of cSNPs, every record the reader decoded has
\* been delivered to it and the channel is empty.
C18_ClosedAfterSenders ==
    /\ "cRef" \in closed => rd["ref"] = [pc |-> "ret", err |-> "none"]
    /\ "cFR" \in closed => rd["aln"] = [pc |-> "ret", err |-> "none"]
    /\ "cSNPs" \in closed =>
          /\ "cFR" \in closed
          /\ wgSNPs = 0
          /\ \A w \in Workers : wk[w] = [pc |-> "ret", SL |-> ZeroSnpLine]
    /\ (wr.pc \in {"drain", "done"} \/ retval = "nil") =>
          /\ "cSNPs" \in closed
          /\ cSNPs = <<>>
          /\ Delivered = 0..(Len(input["aln"]) - 1)

\* C18's case: the writer has seen the end of cSNPs with results still in
\* its buffer, after several workers each computed a result.
C18_EndOfStreamSeen ==
    /\ wr.pc = "drain"
    /\ "cSNPs" \in closed
    /\ Cardinality(DOMAIN wr.outputMap) >= 2

\* C19: in every state of writeOutput, counter is the number of rows written;
\* every record in outputMap is held under its own index, which is at least
\* counter; no row is written twice; and when the final loop runs, outputMap
\* holds the indices from counter on without a gap, so that the record at
\* counter is there to be written.
C19_ReorderBuffer ==
    /\ wr.counter = Len(out)
    /\ \A k \in DOMAIN wr.outputMap :
          /\ k >= wr.counter
          /\ wr.outputMap[k].idx = k
    /\ \A j, k \in 1..Len(out) : out[j].queryname = out[k].queryname => j = k
    /\ wr.pc = "drain" =>
          DOMAIN wr.outputMap =
              wr.counter..(wr.counter + Cardinality(DOMAIN wr.outputMap) - 1)

\* C19's case: rows were written and the writer, waiting for a further
\* result, holds a record in its buffer.
C19_RowsWrittenAndBuffered ==
    /\ wr.pc = "recv"
    /\ wr.counter >= 2
    /\ DOMAIN wr.outputMap # {}

====
